---- MODULE Spec2Model ----
(***************************************************************************)
(* BitSplit grid-trading bot: the strategy engine (strategy.py), the       *)
(* outcomes of the exchange layer it calls (exchange_manager.py) and the   *)
(* START / STOP / polling loop of the control surface (main.py).           *)
(*                                                                         *)
(* Python values are pairs <<n, d>>: a number is the fraction n/d in       *)
(* lowest terms with d > 0 (Python floats are modelled as exact            *)
(* rationals), None is <<0, 0>>, and a key that a result dict does not     *)
(* hold is <<1, 0>>.                                                       *)
(***************************************************************************)
EXTENDS Integers, Sequences, FiniteSets, TLC

VARIABLES
    active,               \* BitSplitStrategy.active
    splits,               \* BitSplitStrategy.splits
    logs,                 \* BitSplitStrategy.logs, newest first
    dry_run,              \* BitSplitStrategy.dry_run
    total_slots,          \* BitSplitStrategy.total_slots
    investment_per_slot,  \* BitSplitStrategy.investment_per_slot
    start_price,          \* BitSplitStrategy.start_price
    gap_percent,          \* BitSplitStrategy.gap_percent
    target_return,        \* BitSplitStrategy.target_return
    bot_active,           \* st.session_state.bot_active
    checkbox,             \* the "Dry Run" checkbox as read at the last START
    arg,                  \* the configuration handed to the last configure call
    nlogged,              \* number of log() calls so far (stamps the entries)
    op,                   \* the operation that ran last
    cur,                  \* what fetch_current_price returned in the last run_step
    ret,                  \* what the last operation returned (or that it raised)
    calls,                \* executor orders placed by the last operation, in order
    race                  \* run_step invocations in progress on the engine, by thread

vars == <<active, splits, logs, dry_run, total_slots, investment_per_slot,
          start_price, gap_percent, target_return, bot_active, checkbox,
          arg, nlogged, op, cur, ret, calls, race>>

params == <<dry_run, total_slots, investment_per_slot, start_price,
            gap_percent, target_return>>

----------------------------------------------------------------------------
(* Python values and float arithmetic *)

None == <<0, 0>>
Absent == <<1, 0>>
IsNum(v) == v[2] > 0

Abs(x) == IF x < 0 THEN -x ELSE x

RECURSIVE GCD(_, _)
GCD(a, b) == IF b = 0 THEN a ELSE GCD(b, a % b)

Rat(n, d) ==
    LET g == GCD(Abs(n), Abs(d))
        s == IF d < 0 THEN -1 ELSE 1
    IN  <<(s * n) \div g, (s * d) \div g>>

Num(n) == <<n, 1>>
Zero == Num(0)
One == Num(1)

Add(a, b) == Rat(a[1] * b[2] + b[1] * a[2], a[2] * b[2])
Sub(a, b) == Rat(a[1] * b[2] - b[1] * a[2], a[2] * b[2])
Mul(a, b) == Rat(a[1] * b[1], a[2] * b[2])
Div(a, b) == Rat(a[1] * b[2], a[2] * b[1])
Le(a, b) == a[1] * b[2] <= b[1] * a[2]
Lt(a, b) == a[1] * b[2] < b[1] * a[2]

\* The price as the log's "{price:,.0f}" prints it: rounded half to even.
Fmt0(v) ==
    LET q == v[1] \div v[2]
        r == v[1] - q * v[2]
    IN  IF 2 * r < v[2] THEN q
        ELSE IF 2 * r > v[2] THEN q + 1
        ELSE IF q % 2 = 0 THEN q ELSE q + 1

\* dict.get(key, default)
Get(v, default) == IF v = Absent THEN default ELSE v

----------------------------------------------------------------------------
(* Bounds and input sets *)

MaxLogged == 5

SlotCounts == {0, 2, 3}
LiveSlotCounts == {2}
Investments == {Num(1000)}
StartPrices == {Num(100)}
Gaps == {Rat(1, 10), Rat(1, 5)}
Returns == {Rat(1, 20)}
Prices == {Num(85), Num(90), Num(110)}
ReportedPrices == {Num(84)}
ReportedAmounts == {Num(12)}

\* (success, result) of create_market_buy_order / create_market_sell_order
Failure == [success |-> FALSE, price |-> Absent, amount |-> Absent]
Success(price, amount) == [success |-> TRUE, price |-> price, amount |-> amount]
ExecResults ==
    {Failure, Success(Absent, Absent)}
    \cup {Success(p, a) : p \in ReportedPrices, a \in ReportedAmounts}
    \cup {Success(None, a) : a \in ReportedAmounts}
    \cup {Success(p, None) : p \in ReportedPrices}
\* execute_sell reads nothing of the order a successful sell returns
SellResults == {Failure, Success(Absent, Absent)}

----------------------------------------------------------------------------
(* BitSplitStrategy *)

LogCap == 100

\* The engine as the methods pass it along: the fields a step can change,
\* the orders placed so far and whether an exception has been raised.
Self(sp, lg, n, cl, r) ==
    [splits |-> sp, logs |-> lg, nlogged |-> n, calls |-> cl, raised |-> r]

Entry(n, kind, id, price, extra) ==
    [seq |-> n, kind |-> kind, id |-> id, price |-> price, extra |-> extra]

\* A log() that keeps the last 100 entries instead of the first 100.
log_KeepsTail(lg, entry) ==
    LET ins == <<entry>> \o lg
    IN  IF Len(ins) > LogCap THEN SubSeq(ins, Len(ins) - LogCap + 1, Len(ins)) ELSE ins

\* log(): insert at the head, keep the first 100.
log(lg, entry) ==
    LET ins == <<entry>> \o lg
    IN  IF Len(ins) > LogCap THEN SubSeq(ins, 1, LogCap) ELSE ins

Logged(m, kind, id, price, extra) ==
    [m EXCEPT !.logs = log(m.logs, Entry(m.nlogged + 1, kind, id, price, extra)),
              !.nlogged = m.nlogged + 1]

\* Targets that fall by a fixed amount, gap_percent of the start price, per split.
RECURSIVE BuildSplits_Linear(_, _, _, _)
BuildSplits_Linear(acc, i, n, cfg) ==
    IF i >= n THEN acc
    ELSE BuildSplits_Linear(
             Append(acc, [id |-> i + 1, status |-> "READY",
                          buy_target |-> Sub(cfg.start_price,
                                             Mul(Mul(cfg.start_price, cfg.gap_percent), Num(i))),
                          buy_price |-> Zero, quantity |-> Zero, sell_target |-> Zero,
                          profit_rate |-> Zero]),
             i + 1, n, cfg)

\* The loop of configure that appends the splits to the emptied list.
RECURSIVE BuildSplits(_, _, _, _)
BuildSplits(acc, i, n, cfg) ==
    IF i >= n THEN acc
    ELSE LET buy_target ==
                 IF i = 0 THEN cfg.start_price
                 ELSE Mul(acc[i].buy_target, Sub(One, cfg.gap_percent))
         IN  BuildSplits(
                 Append(acc, [id |-> i + 1, status |-> "READY",
                              buy_target |-> buy_target, buy_price |-> Zero,
                              quantity |-> Zero, sell_target |-> Zero,
                              profit_rate |-> Zero]),
                 i + 1, n, cfg)

Config(slots, inv, start, gap, tr, dry) ==
    [total_slots |-> slots, investment_per_slot |-> inv, start_price |-> start,
     gap_percent |-> gap, target_return |-> tr, dry_run |-> dry]

\* A configure that does not empty the list before it appends the new splits.
configure_KeepsOld(sp, lg, n, cfg) ==
    [cfg |-> cfg,
     self |-> Logged(Self(BuildSplits(sp, 0, cfg.total_slots, cfg), lg, n, <<>>, FALSE),
                     IF cfg.dry_run THEN "CONFIGURED_DRY" ELSE "CONFIGURED_LIVE",
                     cfg.total_slots, None, None),
     active |-> TRUE]

\* configure() on an engine whose splits are sp and whose log is lg: stores
\* the parameters, rebuilds the splits from an empty list, logs, activates.
\* The result is the engine after the call: its parameters and its Self.
configure(sp, lg, n, cfg) ==
    [cfg |-> cfg,
     self |-> Logged(Self(BuildSplits(<<>>, 0, cfg.total_slots, cfg), lg, n, <<>>, FALSE),
                     IF cfg.dry_run THEN "CONFIGURED_DRY" ELSE "CONFIGURED_LIVE",
                     cfg.total_slots, None, None),
     active |-> TRUE]

Order(side, id, a, res) == [side |-> side, id |-> id, arg |-> a, result |-> res]

\* A live buy that writes the slot before it looks at the executor's answer.
LiveBuy_WritesFirst(m, i, price, inv, res, tr) ==
    LET split == m.splits[i]
        placed == [m EXCEPT !.calls = Append(@, Order("buy", split.id, inv, res)),
                            !.splits[i].status = "BOUGHT",
                            !.splits[i].buy_price = price,
                            !.splits[i].quantity = Div(inv, price),
                            !.splits[i].sell_target = Mul(price, Add(One, tr))]
    IN  IF ~res.success
        THEN Logged(placed, "BUY_FAILED", split.id, None, None)
        ELSE Logged(placed, "LIVE_BOUGHT", split.id, Num(Fmt0(price)), None)

\* The live branch of execute_buy once the executor has answered res.
LiveBuy(m, i, price, inv, res, tr) ==
    LET split == m.splits[i]
        qty == Div(inv, price)
        placed == [m EXCEPT !.calls = Append(@, Order("buy", split.id, inv, res))]
        buy_price == Get(res.price, price)
        quantity == Get(res.amount, qty)
        held == [split EXCEPT !.status = "BOUGHT", !.buy_price = buy_price,
                              !.quantity = quantity]
    IN  IF ~res.success
        THEN Logged(placed, "BUY_FAILED", split.id, None, None)
        ELSE IF ~IsNum(buy_price)
        THEN \* None * float raises TypeError after three fields were written
             [placed EXCEPT !.splits[i] = held, !.raised = TRUE]
        ELSE Logged([placed EXCEPT !.splits[i] =
                        [held EXCEPT !.sell_target = Mul(buy_price, Add(One, tr))]],
                    "LIVE_BOUGHT", split.id, Num(Fmt0(price)), None)

\* An execute_buy that sends the order whatever the dry-run flag says.
execute_buy_IgnoresDry(m, i, price, inv, tr, dry) ==
    {LiveBuy(m, i, price, inv, res, tr) : res \in ExecResults}

\* execute_buy(): the set of engines it can leave, one per executor answer.
execute_buy(m, i, price, inv, tr, dry) ==
    LET split == m.splits[i]
        qty == Div(inv, price)
        sell_target == Mul(price, Add(One, tr))
    IN  IF dry
        THEN {Logged([m EXCEPT !.splits[i] =
                         [split EXCEPT !.status = "BOUGHT", !.buy_price = price,
                                       !.quantity = qty, !.sell_target = sell_target]],
                     "DRY_BOUGHT", split.id, Num(Fmt0(price)), Num(Fmt0(sell_target)))}
        ELSE {LiveBuy(m, i, price, inv, res, tr) : res \in ExecResults}

\* A reset that forgets profit_rate.
Reset_KeepsRate(split) ==
    [split EXCEPT !.buy_price = Zero, !.quantity = Zero, !.sell_target = Zero]

\* "# Reset split": the four assignments that follow a sale.
Reset(split) ==
    [split EXCEPT !.buy_price = Zero, !.quantity = Zero, !.sell_target = Zero,
                  !.profit_rate = Zero]

\* A live sale that logs its success but leaves the split as it was.
LiveSell_KeepsSplit(m, i, price, res) ==
    LET split == m.splits[i]
        placed == [m EXCEPT !.calls = Append(@, Order("sell", split.id, split.quantity, res))]
    IN  IF res.success
        THEN Logged(placed, "LIVE_SOLD", split.id, Num(Fmt0(price)), None)
        ELSE Logged(placed, "SELL_FAILED", split.id, None, None)

\* The live branch of execute_sell once the executor has answered res.
LiveSell(m, i, price, res) ==
    LET split == m.splits[i]
        placed == [m EXCEPT !.calls = Append(@, Order("sell", split.id, split.quantity, res))]
    IN  IF res.success
        THEN Logged([placed EXCEPT !.splits[i] = Reset([split EXCEPT !.status = "READY"])],
                    "LIVE_SOLD", split.id, Num(Fmt0(price)), None)
        ELSE Logged(placed, "SELL_FAILED", split.id, None, None)

\* execute_sell(): the set of engines it can leave, one per executor answer.
execute_sell(m, i, price, dry) ==
    LET split == m.splits[i]
    IN  IF dry
        THEN IF ~IsNum(split.buy_price) \/ ~IsNum(split.quantity)
             THEN {[m EXCEPT !.splits[i].status = "READY", !.raised = TRUE]}
             ELSE LET profit == Mul(Sub(price, split.buy_price), split.quantity)
                  IN  {Logged([m EXCEPT !.splits[i] = Reset([split EXCEPT !.status = "READY"])],
                              "DRY_SOLD", split.id, Num(Fmt0(price)), Num(Fmt0(profit)))}
        ELSE {LiveSell(m, i, price, res) : res \in SellResults}

\* A buy trigger that needs the price strictly below the target.
BuyTriggered_Strict(price, split) == Lt(price, split.buy_target)

\* if current_price <= split['buy_target']
BuyTriggered(price, split) == Le(price, split.buy_target)

\* A loop body whose sell test is a second "if": a split bought in this
\* iteration is tested for its sell target in the same iteration.
Evaluate_IfNotElif(m, i, price, inv, tr, dry) ==
    LET bought == IF m.splits[i].status = "READY" /\ BuyTriggered(price, m.splits[i])
                  THEN execute_buy(m, i, price, inv, tr, dry)
                  ELSE {m}
        Held(b) ==
            LET split == b.splits[i]
            IN  IF b.raised \/ split.status # "BOUGHT" THEN {b}
                ELSE IF ~IsNum(split.buy_price) THEN {[b EXCEPT !.raised = TRUE]}
                ELSE LET rated ==
                             IF Lt(Zero, split.buy_price)
                             THEN [b EXCEPT !.splits[i].profit_rate =
                                      Mul(Div(Sub(price, split.buy_price), split.buy_price),
                                          Num(100))]
                             ELSE b
                     IN  IF Le(split.sell_target, price)
                         THEN execute_sell(rated, i, price, dry)
                         ELSE {rated}
    IN  UNION {Held(b) : b \in bought}

\* The body of run_step's loop for the split at index i.
Evaluate(m, i, price, inv, tr, dry) ==
    LET split == m.splits[i]
    IN  IF split.status = "READY"
        THEN IF BuyTriggered(price, split)
             THEN execute_buy(m, i, price, inv, tr, dry)
             ELSE {m}
        ELSE IF split.status = "BOUGHT"
        THEN IF ~IsNum(split.buy_price)
             THEN {[m EXCEPT !.raised = TRUE]}   \* None > 0 raises TypeError
             ELSE LET rated ==
                          IF Lt(Zero, split.buy_price)
                          THEN [m EXCEPT !.splits[i].profit_rate =
                                   Mul(Div(Sub(price, split.buy_price), split.buy_price),
                                       Num(100))]
                          ELSE m
                  IN  IF Le(split.sell_target, price)
                      THEN execute_sell(rated, i, price, dry)
                      ELSE {rated}
        ELSE {m}

\* for split in self.splits: in list order, abandoned when an exception is raised.
RECURSIVE Loop(_, _, _, _, _, _)
Loop(ms, i, price, inv, tr, dry) ==
    IF \A m \in ms : i > Len(m.splits) THEN ms
    ELSE Loop(UNION {IF m.raised \/ i > Len(m.splits) THEN {m}
                     ELSE Evaluate(m, i, price, inv, tr, dry) : m \in ms},
              i + 1, price, inv, tr, dry)

RetNone == [kind |-> "None", val |-> None]
RetFailed == [kind |-> "Failed to fetch price", val |-> None]
RetPrice(p) == [kind |-> "price", val |-> p]
RetRaised == [kind |-> "TypeError", val |-> None]

\* A run_step that hands back the missing price itself.
run_step_ReturnsNone(act, m, fetched, inv, tr, dry) ==
    IF ~act \/ fetched = None THEN {[ret |-> RetNone, self |-> m]}
    ELSE {[ret |-> IF e.raised THEN RetRaised ELSE RetPrice(fetched), self |-> e] :
             e \in Loop({m}, 1, fetched, inv, tr, dry)}

\* run_step(): the set of (returned value, engine) pairs it can end in, for the
\* answer fetched of the price feed.
run_step(act, m, fetched, inv, tr, dry) ==
    IF ~act THEN {[ret |-> RetNone, self |-> m]}
    ELSE IF fetched = None THEN {[ret |-> RetFailed, self |-> m]}
    ELSE {[ret |-> IF e.raised THEN RetRaised ELSE RetPrice(fetched), self |-> e] :
             e \in Loop({m}, 1, fetched, inv, tr, dry)}

\* ExchangeManager.fetch_current_price: a price, or None
PriceAnswers == Prices \cup {None}

----------------------------------------------------------------------------
(* The state machine *)

\* The threads that may call run_step, none of them inside a call.
Threads == {1, 2}

NoRace ==
    [pc |-> [t \in Threads |-> "idle"],      \* idle, in the loop, or in an executor call
     price |-> [t \in Threads |-> None],    \* current_price of the invocation
     idx |-> [t \in Threads |-> 0],         \* position of its loop in self.splits
     side |-> [t \in Threads |-> "none"],   \* the order it is waiting for
     sent |-> [t \in Threads |-> None],     \* the argument of that order
     overlapped |-> FALSE,                  \* two invocations were in progress at once
     trades |-> <<>>]                       \* successful orders since configure

Init ==
    /\ active = FALSE
    /\ splits = <<>>
    /\ logs = <<>>
    /\ dry_run = TRUE
    /\ total_slots = 10
    /\ investment_per_slot = Zero
    /\ start_price = Zero
    /\ gap_percent = Rat(1, 100)
    /\ target_return = Rat(1, 100)
    /\ bot_active = FALSE
    /\ checkbox = TRUE
    /\ arg = Config(10, Zero, Zero, Rat(1, 100), Rat(1, 100), TRUE)
    /\ nlogged = 0
    /\ op = "init"
    /\ cur = None
    /\ ret = RetNone
    /\ calls = <<>>
    /\ race = NoRace

\* The configurations tried: any slot count of SlotCounts in dry-run, those of
\* LiveSlotCounts in live mode (each live order has several answers).
Configs ==
    {c \in {Config(n, inv, s, g, tr, dry) :
                n \in SlotCounts, inv \in Investments, s \in StartPrices,
                g \in Gaps, tr \in Returns, dry \in BOOLEAN} :
        c.dry_run \/ c.total_slots \in LiveSlotCounts}

\* What the sidebar widgets of main.py let through: 1..50 splits, amounts
\* >= 0, sliders 0.1..10 (per cent); START passes no dry_run argument, so
\* configure takes its default, True.
StartConfigs ==
    {c \in Configs :
        /\ c.total_slots \in 1..50
        /\ Le(Zero, c.investment_per_slot) /\ Le(Zero, c.start_price)
        /\ Le(Rat(1, 1000), c.gap_percent) /\ Le(c.gap_percent, Rat(1, 10))
        /\ Le(Rat(1, 1000), c.target_return) /\ Le(c.target_return, Rat(1, 10))
        /\ c.dry_run}

SetParams(cfg) ==
    /\ dry_run' = cfg.dry_run
    /\ total_slots' = cfg.total_slots
    /\ investment_per_slot' = cfg.investment_per_slot
    /\ start_price' = cfg.start_price
    /\ gap_percent' = cfg.gap_percent
    /\ target_return' = cfg.target_return

SetSelf(m) ==
    /\ splits' = m.splits
    /\ logs' = m.logs
    /\ nlogged' = m.nlogged
    /\ calls' = m.calls

\* strategy.configure(...) called on the engine with a configuration of cfgs
ConfigureWith(cfgs, bound) ==
    /\ nlogged < bound
    /\ \E cfg \in cfgs :
          LET c == configure(splits, logs, nlogged, cfg)
          IN  /\ arg' = cfg
              /\ SetParams(c.cfg)
              /\ SetSelf(c.self)
              /\ active' = c.active
    /\ op' = "configure"
    /\ cur' = None
    /\ ret' = RetNone
    /\ UNCHANGED <<bot_active, checkbox>>

\* strategy.run_step() called on the engine, the price feed answering in answers
RunStepWith(answers, bound) ==
    /\ nlogged < bound
    /\ \E fetched \in answers :
          /\ cur' = (IF active THEN fetched ELSE None)
          /\ \E r \in run_step(active, Self(splits, logs, nlogged, <<>>, FALSE), fetched,
                               investment_per_slot, target_return, dry_run) :
                /\ SetSelf(r.self)
                /\ ret' = r.ret
    /\ op' = "run_step"
    /\ UNCHANGED <<active, params, arg>>

Configure == ConfigureWith(Configs, MaxLogged) /\ UNCHANGED race

RunStep == RunStepWith(PriceAnswers, MaxLogged) /\ UNCHANGED <<bot_active, checkbox, race>>

\* main(): the script run in which START is pressed: configure, then the
\* step of the same run, bot_active being set.
Start ==
    /\ nlogged < MaxLogged
    /\ \E cfg \in StartConfigs, chk \in BOOLEAN, fetched \in PriceAnswers :
          LET c == configure(splits, logs, nlogged, cfg)
          IN  /\ checkbox' = chk
              /\ bot_active' = TRUE
              /\ arg' = cfg
              /\ SetParams(c.cfg)
              /\ active' = c.active
              /\ cur' = fetched
              /\ \E r \in run_step(c.active, c.self, fetched, c.cfg.investment_per_slot,
                                   c.cfg.target_return, c.cfg.dry_run) :
                    /\ SetSelf(r.self)
                    /\ ret' = r.ret
    /\ op' = "start"
    /\ UNCHANGED race

\* main(): the script run in which STOP is pressed
Stop ==
    /\ bot_active' = FALSE
    /\ op' = "stop"
    /\ UNCHANGED <<active, splits, logs, nlogged, params, arg, checkbox, cur, ret, calls,
                   race>>

\* A rerun that steps the engine without looking at bot_active.
Tick_Unguarded ==
    /\ RunStepWith(PriceAnswers, MaxLogged)
    /\ UNCHANGED <<bot_active, checkbox, race>>

\* main(): a rerun of the script with bot_active set
Tick ==
    /\ bot_active
    /\ RunStepWith(PriceAnswers, MaxLogged)
    /\ UNCHANGED <<bot_active, checkbox, race>>

\* The engine driven through its own interface, by any caller.
Next == Configure \/ RunStep

Spec == Init /\ [][Next]_vars

\* The engine driven by the control surface of main.py.
NextUI == Start \/ Stop \/ Tick

SpecUI == Init /\ [][NextUI]_vars

\* A long run that fills the log: one dry-run configuration of one split,
\* then steps whose prices make the split buy and sell in turn.
MaxAppends == 103
LogConfigs == {Config(1, Num(1000), Num(100), Rat(1, 10), Rat(1, 20), TRUE)}
LogPrices == {Num(85), Num(90)}

ConfigureLog == ~active /\ ConfigureWith(LogConfigs, MaxAppends) /\ UNCHANGED race

RunStepLog == RunStepWith(LogPrices, MaxAppends) /\ UNCHANGED <<bot_active, checkbox, race>>

NextLog == ConfigureLog \/ RunStepLog

SpecLog == Init /\ [][NextLog]_vars

\* run_step called from several threads on one live engine.  A thread can be
\* overtaken where it waits for the exchange: in fetch_current_price and in
\* create_market_buy_order / create_market_sell_order.
MaxRace == 5
RaceConfigs == {Config(1, Num(1000), Num(100), Rat(1, 10), Rat(1, 20), FALSE)}
RacePrices == {Num(85), Num(110)}

Waiting == {t \in Threads : race.pc[t] = "wait"}

\* configure(), called while no run_step is in progress
ConfigureRace ==
    /\ \A t \in Threads : race.pc[t] = "idle"
    /\ ConfigureWith(RaceConfigs, MaxRace)
    /\ race' = NoRace

\* run_step(): entry, the active test and fetch_current_price
BeginStep(t) ==
    /\ race.pc[t] = "idle"
    /\ \E fetched \in RacePrices \cup {None} :
          /\ cur' = (IF active THEN fetched ELSE None)
          /\ IF ~active \/ fetched = None
             THEN /\ ret' = (IF ~active THEN RetNone ELSE RetFailed)
                  /\ UNCHANGED race
             ELSE /\ race' = [race EXCEPT
                                !.pc[t] = "loop", !.price[t] = fetched, !.idx[t] = 1,
                                !.overlapped = @ \/ \E u \in Threads \ {t} :
                                                       race.pc[u] # "idle"]
                  /\ UNCHANGED ret
    /\ op' = "run_step"
    /\ UNCHANGED <<active, splits, logs, nlogged, params, arg, calls, bot_active, checkbox>>

\* run_step(): one iteration of the loop, up to the executor call if the
\* split's trigger holds, or the return after the last split
LoopStep(t) ==
    /\ race.pc[t] = "loop"
    /\ LET i == race.idx[t]
           price == race.price[t]
           Call(side, a) == [race EXCEPT !.pc[t] = "wait", !.side[t] = side, !.sent[t] = a]
           Skip == [race EXCEPT !.idx[t] = i + 1]
           Return == [race EXCEPT !.pc[t] = "idle", !.price[t] = None, !.idx[t] = 0]
       IN  IF i > Len(splits)
           THEN /\ race' = Return /\ ret' = RetPrice(price) /\ UNCHANGED splits
           ELSE IF splits[i].status = "READY"
           THEN /\ IF BuyTriggered(price, splits[i])
                   THEN /\ nlogged + Cardinality(Waiting) < MaxRace
                        /\ race' = Call("buy", investment_per_slot)
                   ELSE race' = Skip
                /\ UNCHANGED <<splits, ret>>
           ELSE IF splits[i].status = "BOUGHT"
           THEN IF ~IsNum(splits[i].buy_price)
                THEN /\ race' = Return /\ ret' = RetRaised /\ UNCHANGED splits
                ELSE /\ splits' = IF Lt(Zero, splits[i].buy_price)
                                  THEN [splits EXCEPT ![i].profit_rate =
                                           Mul(Div(Sub(price, splits[i].buy_price),
                                                   splits[i].buy_price), Num(100))]
                                  ELSE splits
                     /\ IF Le(splits[i].sell_target, price)
                        THEN /\ nlogged + Cardinality(Waiting) < MaxRace
                             /\ race' = Call("sell", splits[i].quantity)
                        ELSE race' = Skip
                     /\ UNCHANGED ret
           ELSE race' = Skip /\ UNCHANGED <<splits, ret>>
    /\ op' = "run_step"
    /\ UNCHANGED <<active, logs, nlogged, params, arg, cur, calls, bot_active, checkbox>>

\* execute_buy() / execute_sell(): the executor answers and the rest of the
\* function runs on the split as it is by then
OrderReturns(t) ==
    /\ race.pc[t] = "wait"
    /\ LET i == race.idx[t]
           price == race.price[t]
           side == race.side[t]
           m == Self(splits, logs, nlogged, <<>>, FALSE)
       IN  \E res \in (IF side = "buy" THEN ExecResults ELSE SellResults) :
              LET e == IF side = "buy"
                       THEN LiveBuy(m, i, price, investment_per_slot, res, target_return)
                       ELSE LiveSell(m, i, price, res)
                  done == IF res.success
                          THEN Append(race.trades,
                                      [id |-> splits[i].id, side |-> side,
                                       raced |-> race.overlapped])
                          ELSE race.trades
              IN  /\ splits' = e.splits
                  /\ logs' = e.logs
                  /\ nlogged' = e.nlogged
                  /\ calls' = <<Order(side, splits[i].id, race.sent[t], res)>>
                  /\ IF e.raised
                     THEN /\ ret' = RetRaised
                          /\ race' = [race EXCEPT !.pc[t] = "idle", !.price[t] = None,
                                                  !.idx[t] = 0, !.side[t] = "none",
                                                  !.sent[t] = None, !.trades = done]
                     ELSE /\ UNCHANGED ret
                          /\ race' = [race EXCEPT !.pc[t] = "loop", !.idx[t] = i + 1,
                                                  !.side[t] = "none", !.sent[t] = None,
                                                  !.trades = done]
    /\ op' = "run_step"
    /\ UNCHANGED <<active, params, arg, cur, bot_active, checkbox>>

Begin == \E t \in Threads : BeginStep(t)

Iterate == \E t \in Threads : LoopStep(t)

Answer == \E t \in Threads : OrderReturns(t)

NextRace == ConfigureRace \/ Begin \/ Iterate \/ Answer

SpecRace == Init /\ [][NextRace]_vars

----------------------------------------------------------------------------
(* Properties *)

Slots == 1..Len(splits)

\* The log entries the step from the current state to the next appended,
\* newest first.
NewEntries == SubSeq(logs', 1, IF nlogged' - nlogged < Len(logs')
                               THEN nlogged' - nlogged ELSE Len(logs'))

\* A run_step of an active engine took the step and obtained a price.
SteppedAt == op' = "run_step" /\ active /\ IsNum(cur')

Positive(v) == IsNum(v) /\ Lt(Zero, v)

ReadyShape(s) ==
    s.status = "READY" /\ s.buy_price = Zero /\ s.quantity = Zero /\ s.sell_target = Zero

BoughtShape(s) ==
    s.status = "BOUGHT" /\ Positive(s.buy_price) /\ Positive(s.quantity)
                        /\ Positive(s.sell_target)

\* C1: between operations every slot is either READY with buy_price,
\* quantity and sell_target all 0, or BOUGHT with all three above 0.
C1_SlotShape == \A i \in Slots : ReadyShape(splits[i]) \/ BoughtShape(splits[i])

Malformed(cfg) ==
    \/ cfg.total_slots < 1 \/ cfg.total_slots > 50
    \/ ~(Lt(Zero, cfg.gap_percent) /\ Lt(cfg.gap_percent, One))
    \/ ~Lt(Zero, cfg.start_price)
    \/ ~Lt(Zero, cfg.investment_per_slot)
    \/ ~Lt(Zero, cfg.target_return)

\* C2: a configure call handed a malformed configuration reports
\* InvalidConfig and leaves the slot set, the parameters and the active flag
\* as they were.
C2_MalformedRejected ==
    [][(op' = "configure" /\ Malformed(arg'))
          => (ret'.kind = "InvalidConfig" /\ UNCHANGED <<splits, params, active>>)]_vars

\* C3: in a run_step that obtains price p, a READY slot whose buy_target is
\* below p keeps every field; in dry-run every READY slot whose buy_target is
\* at least p is BOUGHT after the step; and the entries the step logs are in
\* ascending slot id (the newest entry has the largest id).
C3_BuyTrigger ==
    [][SteppedAt =>
          /\ \A i \in Slots :
                (splits[i].status = "READY" /\ Lt(splits[i].buy_target, cur'))
                   => splits'[i] = splits[i]
          /\ dry_run =>
                \A i \in Slots :
                   (splits[i].status = "READY" /\ Le(cur', splits[i].buy_target))
                      => (splits'[i].status = "BOUGHT" /\ splits'[i].buy_price = cur')
          /\ \A a, b \in 1..Len(NewEntries) :
                a < b => NewEntries[a].id > NewEntries[b].id]_vars

\* Targets 100, 90, 81 and price 85: slots 1 and 2 bought in that order by the
\* first step after configure, slot 3 still READY.
C3_Witness ==
    /\ op = "run_step" /\ dry_run /\ cur = Num(85) /\ Len(splits) = 3 /\ nlogged = 3
    /\ splits[1].status = "BOUGHT" /\ splits[2].status = "BOUGHT"
    /\ splits[3] = [id |-> 3, status |-> "READY", buy_target |-> Num(81),
                    buy_price |-> Zero, quantity |-> Zero, sell_target |-> Zero,
                    profit_rate |-> Zero]
    /\ logs[1].kind = "DRY_BOUGHT" /\ logs[1].id = 2
    /\ logs[2].kind = "DRY_BOUGHT" /\ logs[2].id = 1
    /\ logs[3].kind = "CONFIGURED_DRY"

\* C4: every BOUGHT slot has sell_target = buy_price * (1 + target_return),
\* and a run_step that leaves a slot BOUGHT leaves its buy_price and
\* sell_target as they were.
C4_SellTarget ==
    \A i \in Slots :
       splits[i].status = "BOUGHT"
          => /\ IsNum(splits[i].buy_price)
             /\ splits[i].sell_target = Mul(splits[i].buy_price, Add(One, target_return))

C4_Frozen ==
    [][op' = "run_step" =>
          \A i \in Slots :
             (splits[i].status = "BOUGHT" /\ splits'[i].status = "BOUGHT")
                => /\ splits'[i].buy_price = splits[i].buy_price
                   /\ splits'[i].sell_target = splits[i].sell_target]_vars

FailedOrder(cs, side, i) ==
    \E k \in 1..Len(cs) : cs[k].side = side /\ cs[k].id = i /\ ~cs[k].result.success

Appended(kinds, i) ==
    \E k \in 1..Len(NewEntries) : NewEntries[k].kind \in kinds /\ NewEntries[k].id = i

\* C5: a live sell the executor fails leaves the slot BOUGHT with buy_price,
\* quantity and sell_target as they were and logs SELL_FAILED for it; and the
\* run_step that follows such a step, when its price is still at or above the
\* slot's sell_target, places a sell for that slot with the same quantity.
C5_FailedSellRetried ==
    [][/\ op' = "run_step" =>
             \A i \in Slots :
                FailedOrder(calls', "sell", i)
                   => /\ splits'[i].status = "BOUGHT"
                      /\ splits'[i].buy_price = splits[i].buy_price
                      /\ splits'[i].quantity = splits[i].quantity
                      /\ splits'[i].sell_target = splits[i].sell_target
                      /\ Appended({"SELL_FAILED"}, i)
       /\ (op = "run_step" /\ SteppedAt) =>
             \A i \in Slots :
                (FailedOrder(calls, "sell", i) /\ Le(splits[i].sell_target, cur'))
                   => \E k \in 1..Len(calls') :
                         /\ calls'[k].side = "sell" /\ calls'[k].id = i
                         /\ calls'[k].arg = splits[i].quantity]_vars

\* C6: a live buy the executor fails leaves the slot READY with buy_price,
\* quantity and sell_target 0 and logs BUY_FAILED for it, and no run_step
\* places more than one buy for a slot.
C6_FailedBuy ==
    [][op' = "run_step" =>
          \A i \in Slots :
             /\ Cardinality({k \in 1..Len(calls') :
                                calls'[k].side = "buy" /\ calls'[k].id = i}) <= 1
             /\ FailedOrder(calls', "buy", i)
                   => /\ splits[i].status = "READY"
                      /\ ReadyShape(splits'[i])
                      /\ Appended({"BUY_FAILED"}, i)]_vars

\* A live step just had a buy fail: the slot is READY and BUY_FAILED heads the log.
C6_Witness ==
    /\ op = "run_step" /\ ~dry_run /\ Len(calls) = 1
    /\ FailedOrder(calls, "buy", 1)
    /\ ReadyShape(splits[1])
    /\ logs[1].kind = "BUY_FAILED" /\ logs[1].id = 1

\* C7: a run_step whose price feed answers None returns the failure
\* indicator, places no order, leaves every slot as it was and leaves the
\* engine active.
C7_NoPrice ==
    [][(op' = "run_step" /\ active /\ cur' = None)
          => /\ ret' = RetFailed
             /\ calls' = <<>>
             /\ splits' = splits
             /\ active']_vars

\* A step without a price has just run on an engine that holds a position.
C7_Witness ==
    /\ op = "run_step" /\ active /\ cur = None /\ ret = RetFailed
    /\ \E i \in Slots : splits[i].status = "BOUGHT"

\* C8: a run_step whose price feed answers None appends an entry to the
\* log: the log is longer, or its head is new.
C8_NoPriceLogged ==
    [][(op' = "run_step" /\ active /\ cur' = None)
          => \/ Len(logs') > Len(logs)
             \/ (logs' # <<>> /\ (logs = <<>> \/ logs'[1] # logs[1]))]_vars

\* C9: a run_step changes no slot's id or buy_target, and a slot it sells
\* (the step logs the sale) is READY afterwards with buy_price, quantity,
\* sell_target and profit_rate all 0.
C9_SoldSlotReset ==
    [][op' = "run_step" =>
          /\ Len(splits') = Len(splits)
          /\ \A i \in Slots :
                /\ splits'[i].id = splits[i].id
                /\ splits'[i].buy_target = splits[i].buy_target
                /\ Appended({"DRY_SOLD", "LIVE_SOLD"}, i)
                      => /\ ReadyShape(splits'[i])
                         /\ splits'[i].profit_rate = Zero]_vars

\* A step has just sold a slot.
C9_Witness ==
    /\ op = "run_step" /\ logs # <<>>
    /\ logs[1].kind \in {"DRY_SOLD", "LIVE_SOLD"}
    /\ splits[logs[1].id].status = "READY"

\* C10: the log holds the last min(100, appends) entries appended, the
\* newest at index 1 and each next one older by one append: it never exceeds
\* 100 entries and a full log drops its oldest entry.
C10_LogBounded ==
    /\ Len(logs) = (IF nlogged < LogCap THEN nlogged ELSE LogCap)
    /\ \A i \in 1..Len(logs) : logs[i].seq = nlogged - i + 1

\* The log is full and has dropped entries.
C10_Witness == Len(logs) = LogCap /\ nlogged > LogCap /\ logs[1].seq = nlogged

EntriesOf(i) == {k \in 1..Len(NewEntries) : NewEntries[k].id = i}

\* The realized profit of slot i at price p, from the slot's values before
\* the step, as the log prints it.
Profit(i, p) ==
    IF IsNum(splits[i].buy_price) /\ IsNum(splits[i].quantity)
    THEN Num(Fmt0(Mul(Sub(p, splits[i].buy_price), splits[i].quantity)))
    ELSE None

\* C11: a run_step that buys a slot (READY to BOUGHT) or sells it (BOUGHT to
\* READY) appends exactly one entry for that slot, of the matching kind, with
\* the price, and for a sale with the realized profit (price - buy_price) *
\* quantity of the slot's values before the step.
C11_TradesLogged ==
    [][SteppedAt =>
          \A i \in Slots :
             /\ (splits[i].status = "READY" /\ splits'[i].status = "BOUGHT")
                   => /\ Cardinality(EntriesOf(i)) = 1
                      /\ \A k \in EntriesOf(i) :
                            /\ NewEntries[k].kind \in {"DRY_BOUGHT", "LIVE_BOUGHT"}
                            /\ NewEntries[k].price = Num(Fmt0(cur'))
             /\ (splits[i].status = "BOUGHT" /\ splits'[i].status = "READY")
                   => /\ Cardinality(EntriesOf(i)) = 1
                      /\ \A k \in EntriesOf(i) :
                            /\ NewEntries[k].kind \in {"DRY_SOLD", "LIVE_SOLD"}
                            /\ NewEntries[k].price = Num(Fmt0(cur'))
                            /\ IsNum(NewEntries[k].extra)
                            /\ NewEntries[k].extra = Profit(i, cur')]_vars

\* C12: after a live buy the executor reports successful, the slot's
\* buy_price is the reported price when the order carries a number there and
\* the observed price otherwise (key missing or null), and its quantity is the
\* reported amount when the order carries a number there and
\* investment_per_slot / price otherwise.
C12_LiveBuyFields ==
    [][SteppedAt =>
          \A k \in 1..Len(calls') :
             (calls'[k].side = "buy" /\ calls'[k].result.success)
                => LET s == splits'[calls'[k].id]
                       r == calls'[k].result
                   IN  /\ s.buy_price = (IF IsNum(r.price) THEN r.price ELSE cur')
                       /\ s.quantity = (IF IsNum(r.amount) THEN r.amount
                                        ELSE Div(investment_per_slot, cur'))]_vars

RECURSIVE Pow(_, _)
Pow(b, k) == IF k = 0 THEN One ELSE Mul(b, Pow(b, k - 1))

\* C13: an engine configured with 1 <= N <= 50, 0 < g < 1 and s > 0 holds N
\* slots with ids 1..N in order, slot 1 at buy_target s, every next slot at the
\* previous buy_target times (1 - g), which is s * (1 - g)^(id - 1), and the
\* buy_targets strictly decrease.
C13_Grid ==
    (active /\ ~Malformed(arg))
       => /\ Len(splits) = arg.total_slots
          /\ \A i \in Slots :
                /\ splits[i].id = i
                /\ splits[i].buy_target =
                      Mul(arg.start_price, Pow(Sub(One, arg.gap_percent), i - 1))
                /\ i > 1 =>
                      /\ splits[i].buy_target =
                            Mul(splits[i - 1].buy_target, Sub(One, arg.gap_percent))
                      /\ Lt(splits[i].buy_target, splits[i - 1].buy_target)

\* Three slots just configured from start 100 and gap 1/5: 100, 80, 64.
C13_Witness ==
    /\ op = "configure" /\ Len(splits) = 3 /\ arg.gap_percent = Rat(1, 5)
    /\ splits[1].buy_target = Num(100)
    /\ splits[2].buy_target = Num(80)
    /\ splits[3].buy_target = Num(64)

\* The slot a configuration gives id i: READY, nothing held, at its target.
Fresh(cfg, i) ==
    [id |-> i, status |-> "READY",
     buy_target |-> Mul(cfg.start_price, Pow(Sub(One, cfg.gap_percent), i - 1)),
     buy_price |-> Zero, quantity |-> Zero, sell_target |-> Zero, profit_rate |-> Zero]

\* C14: configure, whatever the engine held, leaves exactly the new number of
\* slots, each READY with buy_price, quantity, sell_target and profit_rate 0
\* and a buy_target of the new parameters alone, and leaves the engine active.
C14_Reconfigure ==
    [][op' = "configure" =>
          /\ active'
          /\ Len(splits') = arg'.total_slots
          /\ \A i \in 1..Len(splits') : splits'[i] = Fresh(arg', i)]_vars

\* An engine configured with 2 slots bought one, and was then configured with 3.
C14_Witness ==
    /\ op = "configure" /\ Len(logs) >= 3 /\ Len(splits) = 3
    /\ logs[1].kind \in {"CONFIGURED_DRY", "CONFIGURED_LIVE"} /\ logs[1].id = 3
    /\ logs[2].kind \in {"DRY_BOUGHT", "LIVE_BOUGHT"}
    /\ logs[3].kind \in {"CONFIGURED_DRY", "CONFIGURED_LIVE"} /\ logs[3].id = 2

\* C15: a run_step of an engine configured dry-run places no executor order,
\* and still buys every READY slot at or above the price and sells every
\* BOUGHT slot whose sell_target the price has reached.
C15_DryRunLocal ==
    [][(SteppedAt /\ dry_run) =>
          /\ calls' = <<>>
          /\ \A i \in Slots :
                /\ (splits[i].status = "READY" /\ Le(cur', splits[i].buy_target))
                      => splits'[i].status = "BOUGHT"
                /\ (splits[i].status = "BOUGHT" /\ Le(splits[i].sell_target, cur'))
                      => splits'[i].status = "READY"]_vars

\* A dry-run step has just sold a slot it had bought, with no order placed.
C15_Witness ==
    /\ op = "run_step" /\ dry_run /\ calls = <<>> /\ Len(logs) >= 2
    /\ logs[1].kind = "DRY_SOLD"
    /\ \E k \in 2..Len(logs) : logs[k].kind = "DRY_BOUGHT" /\ logs[k].id = logs[1].id

Engine == <<active, splits, logs, nlogged, params>>

\* run_step on the engine as it stands, were its active flag not set: None
\* is returned and nothing changes, whatever the feed would answer.
InactiveStepIdle ==
    LET m == Self(splits, logs, nlogged, <<>>, FALSE)
    IN  \A fetched \in PriceAnswers :
           run_step(FALSE, m, fetched, investment_per_slot, target_return, dry_run)
              = {[ret |-> RetNone, self |-> m]}

\* C16 as stated: STOP leaves the engine's active flag cleared, and while the
\* bot is stopped nothing but a new START changes the engine, fetches a price
\* for a step or places an order.
C16_StopDeactivates ==
    [][/\ op' = "stop" => ~active'
       /\ (~bot_active /\ op' # "start") => UNCHANGED <<Engine, cur, ret, calls>>]_vars

\* C16, amended: while bot_active is cleared nothing but a new START (which
\* calls configure) changes the engine, fetches a price for a step or places
\* an order, and a run_step of an engine whose active flag is not set returns
\* None without effect; STOP itself leaves the engine's active flag as it was.
C16_StoppedNoStep ==
    [][/\ op' = "stop" => (~bot_active' /\ UNCHANGED <<Engine, cur, ret, calls>>)
       /\ (~bot_active /\ op' # "start") => UNCHANGED <<Engine, cur, ret, calls>>
       /\ InactiveStepIdle]_vars

\* STOP has just been pressed on a bot that holds a position: bot_active is
\* cleared, the engine's own flag is still set.
C16_Witness ==
    /\ op = "stop" /\ ~bot_active /\ active
    /\ \E i \in Slots : splits[i].status = "BOUGHT"

OrdersFor(cs, i) == {k \in 1..Len(cs) : cs[k].id = i}

TradesOf(i) ==
    {k \in EntriesOf(i) :
        NewEntries[k].kind \in {"DRY_BOUGHT", "LIVE_BOUGHT", "DRY_SOLD", "LIVE_SOLD"}}

\* C17: one run_step places at most one executor order for a slot and logs at
\* most one trade for it, a buy only for a slot that was READY and is BOUGHT
\* afterwards (even when the price is already at or above the new sell_target),
\* a sale only for a slot that was BOUGHT and is READY afterwards (even when
\* the price is at or below its buy_target); a slot whose status is the same
\* after the step has logged no trade.
C17_OncePerStep ==
    [][SteppedAt =>
          \A i \in Slots :
             /\ Cardinality(OrdersFor(calls', i)) <= 1
             /\ Cardinality(TradesOf(i)) <= 1
             /\ \A k \in TradesOf(i) :
                   IF NewEntries[k].kind \in {"DRY_BOUGHT", "LIVE_BOUGHT"}
                   THEN splits[i].status = "READY" /\ splits'[i].status = "BOUGHT"
                   ELSE splits[i].status = "BOUGHT" /\ splits'[i].status = "READY"
             /\ \A k \in OrdersFor(calls', i) :
                   /\ calls'[k].side = (IF splits[i].status = "READY" THEN "buy" ELSE "sell")
                   /\ calls'[k].result.success
                         => splits'[i].status # splits[i].status
             /\ splits'[i].status = splits[i].status => TradesOf(i) = {}]_vars

\* One live step has bought a slot at a price already at or above the slot's
\* new sell_target and sold another at a price at or below its buy_target:
\* the first is still BOUGHT, the second still READY.
C17_Witness ==
    /\ op = "run_step"
    /\ \E i \in Slots, j \in Slots :
          /\ \E k \in OrdersFor(calls, i) : calls[k].side = "buy" /\ calls[k].result.success
          /\ splits[i].status = "BOUGHT"
          /\ IsNum(splits[i].sell_target) /\ Lt(Zero, splits[i].sell_target)
          /\ Le(splits[i].sell_target, cur)
          /\ \E k \in OrdersFor(calls, j) : calls[k].side = "sell" /\ calls[k].result.success
          /\ splits[j].status = "READY"
          /\ Le(cur, splits[j].buy_target)

\* The slot's trigger condition at the given price.
Triggered(i, p) ==
    \/ splits[i].status = "READY" /\ Le(p, splits[i].buy_target)
    \/ /\ splits[i].status = "BOUGHT" /\ IsNum(splits[i].sell_target)
       /\ Le(splits[i].sell_target, p)

\* C18: no attempt is skipped: when the executor failed a slot's order in one
\* run_step and the slot's trigger condition holds at the price of the next
\* run_step, that step places an order for the slot again.
C18_NoAttemptSkipped ==
    [][(op = "run_step" /\ SteppedAt) =>
          \A i \in Slots :
             ((FailedOrder(calls, "buy", i) \/ FailedOrder(calls, "sell", i))
                 /\ Triggered(i, cur'))
                => OrdersFor(calls', i) # {}]_vars

\* C20: once START has configured the engine, the engine's dry_run is the
\* value the "Dry Run" checkbox had at that START (off: the engine is live and
\* sends its triggered trades to the executor; on: it is in dry run).
C20_ModeIsCheckbox ==
    active => dry_run = checkbox

\* The successful orders of slot i since configure, in the order they came back.
TradesOfSlot(i) == SelectSeq(race.trades, LAMBDA tr : tr.id = i)

\* C19: as long as no two run_step invocations have been in progress at once
\* since configure, the successful orders of a slot alternate, buy first, and
\* the slot is BOUGHT exactly after a buy.
C19_Alternation ==
    \A i \in Slots :
       LET h == TradesOfSlot(i)
       IN  /\ \A k \in 1..Len(h) :
                 ~h[k].raced => h[k].side = (IF k % 2 = 1 THEN "buy" ELSE "sell")
           /\ (~race.overlapped /\ Waiting = {})
                 => (splits[i].status = "BOUGHT") = (Len(h) % 2 = 1)

\* A slot that was bought and sold by steps in turn, and then bought twice
\* over by two overlapping steps that both read it as READY.
C19_Witness ==
    \E i \in Slots :
       LET h == TradesOfSlot(i)
       IN  /\ Len(h) = 4
           /\ h[1].side = "buy" /\ ~h[1].raced
           /\ h[2].side = "sell" /\ ~h[2].raced
           /\ h[3].side = "buy" /\ h[3].raced
           /\ h[4].side = "buy" /\ h[4].raced

====
